---- MODULE Spec2Model ----
(***************************************************************************)
(* The synchronisation engine of the Jira/Confluence -> Dify mirror:       *)
(* main.run_sync with main.validate_config, the tracker store of           *)
(* database.py, the publisher of dify_client.py and the two source         *)
(* adapters of connectors.py.                                              *)
(*                                                                         *)
(* Time is counted in seconds.  A datetime is [clock, aware, off]: the     *)
(* wall-clock reading, whether it carries a tzinfo, and the UTC offset of  *)
(* that tzinfo in seconds (0 when naive).  A timestamp string is           *)
(* [text, clock, aware, off]: text = "iso" for a string the dateutil       *)
(* parsers accept, "malformed" for one they reject.                        *)
(***************************************************************************)
EXTENDS Integers, Sequences, FiniteSets, TLC

\* Most items one run fetches from all sources together.
MaxItems == 2

\* The run_sync invocations that may exist: 1 is the blocking caller
\* (command line, scheduler, POST /sync), 2 a background thread.
Runs == {1, 2}

\* Option values: None is Python's None, Some(x) a present value.
None == <<>>
Some(x) == <<x>>

----------------------------------------------------------------------------
\* Configuration (main.validate_config)

Settings ==
  {"ATLASSIAN_URL", "ATLASSIAN_EMAIL", "ATLASSIAN_API_TOKEN",
   "DIFY_API_KEY", "DIFY_API_URL", "DIFY_DATASET_ID"}

\* What os.getenv returns for a setting: nothing or "" ("unset"), a value that
\* starts with the template prefixes ("template"), or anything else ("real").
SettingKinds == {"unset", "template", "real"}

\* DIFY_API_KEY goes into an HTTP header and the publisher compares it with
\* one template text.  Besides the kinds above (whose values can be sent as a
\* header): the text the publisher knows ("template_text"); a value with a
\* line break inside, which requests rejects when it prepares the request
\* ("invalid_header", "template_invalid_header" with a template prefix); a
\* value that is not latin-1 text or ends in a line break, which http.client
\* rejects when it writes the header ("unsendable", "template_unsendable").
KeyKinds ==
  SettingKinds \cup {"template_text", "invalid_header", "template_invalid_header",
                     "unsendable", "template_unsendable"}

\* CONFLUENCE_SPACE_KEY by the test of run_sync: unset, empty or the template
\* text ("not_configured"), or a space key ("configured").
SpaceKeyKinds == {"not_configured", "configured"}

\* CONFLUENCE_SINCE_DAYS: unset (default 30) or an integer literal ("integer"),
\* or a text int() rejects ("not_integer").
SinceDaysKinds == {"integer", "not_integer"}

\* The process environments.
Environments ==
  [ATLASSIAN_URL : SettingKinds, ATLASSIAN_EMAIL : SettingKinds,
   ATLASSIAN_API_TOKEN : SettingKinds, DIFY_API_KEY : KeyKinds,
   DIFY_API_URL : SettingKinds, DIFY_DATASET_ID : SettingKinds,
   CONFLUENCE_SPACE_KEY : SpaceKeyKinds, CONFLUENCE_SINCE_DAYS : SinceDaysKinds]

\* Every required setting valid, a Confluence space configured.
ValidEnvironment ==
  [ATLASSIAN_URL |-> "real", ATLASSIAN_EMAIL |-> "real",
   ATLASSIAN_API_TOKEN |-> "real", DIFY_API_KEY |-> "real",
   DIFY_API_URL |-> "real", DIFY_DATASET_ID |-> "real",
   CONFLUENCE_SPACE_KEY |-> "configured", CONFLUENCE_SINCE_DAYS |-> "integer"]

\* value.startswith('粘贴') or value.startswith('your-').
Template(kind) ==
  kind \in {"template", "template_text", "template_invalid_header",
            "template_unsendable"}

\* requests.post raises InvalidHeader, a RequestException, for the header.
InvalidHeader(kind) == kind \in {"invalid_header", "template_invalid_header"}

\* http.client raises a ValueError when it writes the header.
Unsendable(kind) == kind \in {"unsendable", "template_unsendable"}

NoError == [label |-> "none", kind |-> "none", names |-> {}]

\* validate_config without its check for template values.
validate_config_missing_only(env) ==
  LET missing == {n \in Settings : env[n] = "unset"}
  IN  IF missing # {}
        THEN [label |-> "ValueError", kind |-> "missing", names |-> missing]
        ELSE NoError

\* The ValueError validate_config raises, or NoError when it returns.
validate_config(env) ==
  LET missing == {n \in Settings : env[n] = "unset"}
      invalid == {n \in Settings : Template(env[n])}
  IN  IF missing # {}
        THEN [label |-> "ValueError", kind |-> "missing", names |-> missing]
        ELSE IF invalid # {}
          THEN [label |-> "ValueError", kind |-> "invalid", names |-> invalid]
          ELSE NoError

\* How a call ends: it returns a value or an exception leaves it.
Returned(v) == [raised |-> FALSE, exc |-> NoError, value |-> v]
Raised(e) == [raised |-> TRUE, exc |-> e, value |-> None]

----------------------------------------------------------------------------
\* Timestamps

\* Clock readings of the timestamps generated: T and T + 1 s.
Clocks == {0, 1}
\* UTC offsets of the aware timestamps generated: +01:00.
Offsets == {3600}

NaiveTimes == {[clock |-> c, aware |-> FALSE, off |-> 0] : c \in Clocks}
AwareTimes ==
  {[clock |-> c, aware |-> TRUE, off |-> o] : c \in Clocks, o \in Offsets}
DateTimes == NaiveTimes \cup AwareTimes

\* datetime.isoformat / the sqlite3 datetime adapter: the string of a datetime.
isoformat(dt) ==
  [text |-> "iso", clock |-> dt.clock, aware |-> dt.aware, off |-> dt.off]

Malformed == [text |-> "malformed", clock |-> 0, aware |-> FALSE, off |-> 0]

\* What a SELECT returns for a DATETIME column (NUMERIC affinity) that was
\* given text that looks like a number: an int or a float, not a string.
Numeric == [text |-> "number", clock |-> 0, aware |-> FALSE, off |-> 0]

\* isinstance(value, str), for a value read from the DATETIME column.
IsString(v) == v.text # "number"

\* A string that reads as a time past datetime.max ('9999-12-31T24:00:00').
Overflowing == [text |-> "overflow", clock |-> 0, aware |-> FALSE, off |-> 0]

\* The strings a source may hold as the update time of an item.
RemoteStrings == {isoformat(dt) : dt \in DateTimes} \cup {Malformed, Overflowing}

\* dateutil's parser.isoparse / parser.parse: defined on Parsable strings.
Parsable(s) == s.text = "iso"

\* The exception parser.isoparse raises for a string that is not Parsable:
\* ValueError for text that is no time, OverflowError for a time out of range.
isoparse_error(s) ==
  [label |-> IF s.text = "overflow" THEN "OverflowError" ELSE "ValueError",
   kind |-> "isoparse", names |-> {}]
parse(s) == [clock |-> s.clock, aware |-> s.aware, off |-> s.off]

\* strip_tz converting to UTC before it drops the offset.
strip_tz_shifting(dt) == [clock |-> dt.clock - dt.off, aware |-> FALSE, off |-> 0]

\* datetime.replace(tzinfo=None): the same clock reading, no offset.
strip_tz(dt) == [clock |-> dt.clock, aware |-> FALSE, off |-> 0]

\* greater with >= for >.
greater_or_equal(a, b) ==
  IF a.aware THEN a.clock - a.off >= b.clock - b.off ELSE a.clock >= b.clock

\* a > b on two datetimes of the same awareness: naive ones by clock reading,
\* aware ones by instant (clock reading minus offset).
greater(a, b) ==
  IF a.aware THEN a.clock - a.off > b.clock - b.off ELSE a.clock > b.clock

----------------------------------------------------------------------------
\* Source adapters (connectors.py)

\* Keys of the Jira issues and ids of the Confluence pages that may exist.  A
\* page id may coincide with an issue key: the tracker is keyed by id alone.
JiraIds == <<"A", "B">>
ConfluenceIds == <<"A">>
Ids == {"A", "B"}

Item(id, type, updated_at) ==
  [id |-> id, type |-> type, updated_at |-> updated_at, content |-> "text"]

\* The updated_at strings generated for a source: any for an issue
\* (fields.updated); for a page (version.when) the malformed one and those
\* with an offset, which is what keeps the number of three-item runs small.
\* Both adapters hand the string over as it is.
UpdatedAtStrings(type) ==
  IF type = "JIRA" THEN RemoteStrings
  ELSE {isoformat(dt) : dt \in AwareTimes} \cup {Malformed, Overflowing}

\* The lists an adapter can return for its ids: each id at most once, in the
\* adapter's order, each with any updated_at string generated for the source.
RECURSIVE Listings(_, _)
Listings(ids, type) ==
  IF ids = <<>> THEN {<<>>}
  ELSE LET rest == Listings(Tail(ids), type)
       IN  rest \cup
           {<<Item(Head(ids), type, u)>> \o l :
              u \in UpdatedAtStrings(type), l \in rest}

\* get_jira_issues handing over what it found although the search failed.
get_jira_issues_ignoring_failure(client_ok, found) == found

\* get_jira_issues: the formatted issues; [] without a client or on any error.
get_jira_issues(client_ok, found) == IF client_ok THEN found ELSE <<>>

\* get_confluence_pages: the formatted pages; [] without a client or on any
\* error, and a page whose version time isoparse rejects is such an error.
get_confluence_pages(client_ok, found) ==
  IF client_ok /\ \A i \in 1..Len(found) : Parsable(found[i].updated_at)
    THEN found ELSE <<>>

----------------------------------------------------------------------------
\* Destination publisher (dify_client.upload_document_to_dify)

\* Identifiers the destination issues.
DocIds == {"doc-1"}

\* What the destination does with one upload: how the first POST and the
\* fallback POST end, and what the JSON body of the answer holds.  The POSTs
\* are made without a timeout: "no_answer" is a destination that accepts the
\* request and never answers.
\* "invalid_url": requests rejects DIFY_API_URL (no scheme) before it connects.
\* connects_first: the URL is https, so the connection is made before the
\* headers are written.
PostOutcomes ==
  {"ok", "not_found", "http_error", "connection_error", "invalid_url", "no_answer"}
BodyShapes == {"document.id", "id", "document_id", "no_id", "not_object"}
AllResponses ==
  [first : PostOutcomes, second : PostOutcomes \ {"not_found", "invalid_url"},
   body : BodyShapes, doc_id : DocIds, connects_first : BOOLEAN]
\* One response per distinguishable case: no second POST is described unless
\* the first ended 404/405, no body unless the last POST ended well, and not
\* when the connection is made unless the first POST fails to get an answer.
Responses ==
  {resp \in AllResponses :
     /\ resp.connects_first => resp.first \in {"connection_error", "no_answer"}
     /\ resp.first # "not_found" => resp.second = "ok"
     /\ (resp.first \notin {"ok", "not_found"} \/ resp.second # "ok")
          => resp.body = "no_id"}

AttributeError == [label |-> "AttributeError", kind |-> "publisher", names |-> {}]

\* http.client cannot write the Authorization header: UnicodeEncodeError or
\* ValueError("Invalid header value"), both ValueErrors.
HeaderValueError == [label |-> "ValueError", kind |-> "header", names |-> {}]

\* isinstance(e, ValueError).
IsValueError(exc) == exc.label = "ValueError"

\* requests.post raises a RequestException while it prepares the request.
NotPrepared(env, resp) ==
  resp.first = "invalid_url" \/ InvalidHeader(env["DIFY_API_KEY"])

\* The credential check of upload_document_to_dify fails: one of the three
\* DIFY settings is missing, or the key is the template text.
NotInitialized(env) ==
  \/ \E n \in {"DIFY_API_KEY", "DIFY_API_URL", "DIFY_DATASET_ID"} : env[n] = "unset"
  \/ env["DIFY_API_KEY"] = "template_text"

\* upload_document_to_dify never returns: a POST it makes gets no answer.
upload_blocks(env, resp) ==
  /\ ~NotInitialized(env)
  /\ ~NotPrepared(env, resp)
  /\ IF Unsendable(env["DIFY_API_KEY"])
       THEN resp.connects_first /\ resp.first = "no_answer"
       ELSE \/ resp.first = "no_answer"
            \/ resp.first = "not_found" /\ resp.second = "no_answer"

\* The value upload_document_to_dify returns, or the exception that leaves it,
\* when it does not block.
upload_document_to_dify(env, resp) ==
  IF NotInitialized(env) THEN Returned(None)
  ELSE IF NotPrepared(env, resp) THEN Returned(None)       \* RequestException
  ELSE IF Unsendable(env["DIFY_API_KEY"])
    THEN IF resp.connects_first /\ resp.first = "connection_error"
           THEN Returned(None)                              \* RequestException
           ELSE Raised(HeaderValueError)
  ELSE LET last == IF resp.first = "not_found" THEN resp.second ELSE resp.first
       IN  IF last # "ok" THEN Returned(None)              \* RequestException
           ELSE IF resp.body = "not_object" THEN Raised(AttributeError)
           ELSE IF resp.body = "no_id" THEN Returned(Some("uploaded_without_id"))
           ELSE Returned(Some(resp.doc_id))

\* Python truthiness of the returned value.
Truthy(v) == v # None /\ v # Some("")

----------------------------------------------------------------------------
\* Tracker store (database.py): one row per source_id

\* engine.url.drivername of the default engine.
drivername == "sqlite"

Row(type, time, doc, status) ==
  [source_type |-> type, last_synced_update_time |-> time,
   dify_document_id |-> doc, last_sync_status |-> status]

\* get_sync_record letting the query's exception out.
get_sync_record_raising(db, db_ok, source_id) ==
  IF db_ok THEN Returned(db[source_id])
  ELSE Raised([label |-> "OperationalError", kind |-> "tracker", names |-> {}])

\* get_sync_record: returns the row of source_id, or None: when there is none,
\* and when the query fails (the exception is logged inside).
get_sync_record(db, db_ok, source_id) ==
  Returned(IF db_ok THEN db[source_id] ELSE None)

\* upsert deleting the row of an item whose publication failed.
upsert_deleting_failed(db, source_id, source_type, updated_at, dify_doc_id, status) ==
  [db EXCEPT ![source_id] =
     IF status = "FAILED" THEN None
     ELSE Some(Row(source_type, isoformat(updated_at), dify_doc_id, status))]

\* The table after the upsert statement of the backend named driver:
\* INSERT OR REPLACE on SQLite, INSERT .. ON CONFLICT DO UPDATE (source_type
\* is not in its SET list) elsewhere.
upsert_on(driver, db, source_id, source_type, updated_at, dify_doc_id, status) ==
  [db EXCEPT ![source_id] =
     Some(Row(IF driver = "sqlite" \/ db[source_id] = None
                THEN source_type ELSE db[source_id][1].source_type,
              isoformat(updated_at), dify_doc_id, status))]

\* The table after the upsert statement of the configured backend.
upsert(db, source_id, source_type, updated_at, dify_doc_id, status) ==
  upsert_on(drivername, db, source_id, source_type, updated_at, dify_doc_id, status)

\* update_sync_record writing nothing for a FAILED status.
update_sync_record_success_only(db, db_ok, source_id, source_type, updated_at, dify_doc_id, status) ==
  Returned(IF db_ok /\ status = "SUCCESS"
             THEN upsert(db, source_id, source_type, updated_at, dify_doc_id, status)
             ELSE db)

\* update_sync_record: returns the table it leaves; a failing statement is
\* logged inside and leaves the table as it was.
update_sync_record(db, db_ok, source_id, source_type, updated_at, dify_doc_id, status) ==
  Returned(IF db_ok
             THEN upsert(db, source_id, source_type, updated_at, dify_doc_id, status)
             ELSE db)

\* update_sync_record on the backend named driver.
update_sync_record_on(driver, db, db_ok, source_id, source_type, updated_at, dify_doc_id, status) ==
  Returned(IF db_ok
             THEN upsert_on(driver, db, source_id, source_type, updated_at,
                            dify_doc_id, status)
             ELSE db)

----------------------------------------------------------------------------
\* Change decision (main.run_sync, the version check on one item)

\* should_sync without the version check: every item is synced.
should_sync_always(remote_update_time, local_record) == TRUE

\* should_sync skipping an item that has no row.
should_sync_needs_record(remote_update_time, local_record) ==
  /\ local_record # None
  /\ LET stored == local_record[1].last_synced_update_time
     IN  ~Parsable(stored) \/
         LET local_time == parse(stored)
         IN  IF remote_update_time.aware /\ ~local_time.aware
               THEN greater(strip_tz(remote_update_time), local_time)
             ELSE IF ~remote_update_time.aware /\ local_time.aware
               THEN greater(remote_update_time, strip_tz(local_time))
             ELSE greater(remote_update_time, local_time)

\* should_sync taking a stored time it cannot parse as up to date.
should_sync_skips_unparsable(remote_update_time, local_record) ==
  /\ local_record # None => Parsable(local_record[1].last_synced_update_time)
  /\ (local_record = None \/
       LET local_time == parse(local_record[1].last_synced_update_time)
       IN  IF remote_update_time.aware /\ ~local_time.aware
             THEN greater(strip_tz(remote_update_time), local_time)
           ELSE IF ~remote_update_time.aware /\ local_time.aware
             THEN greater(remote_update_time, strip_tz(local_time))
           ELSE greater(remote_update_time, local_time))

\* should_sync on any difference between the remote and the stored time.
should_sync_on_any_difference(remote_update_time, local_record) ==
  \/ local_record = None
  \/ ~Parsable(local_record[1].last_synced_update_time)
  \/ strip_tz(remote_update_time).clock
        # strip_tz(parse(local_record[1].last_synced_update_time)).clock

\* The comparison reads .tzinfo of a stored value that is not a string and
\* was therefore not parsed: AttributeError.
TzinfoError == [label |-> "AttributeError", kind |-> "decision", names |-> {}]

\* The version check raises: the row holds a time that is not a string.
should_sync_raises(remote_update_time, local_record) ==
  /\ local_record # None
  /\ ~IsString(local_record[1].last_synced_update_time)

\* should_sync for a parsed remote time and the looked-up row, when the check
\* does not raise.
should_sync(remote_update_time, local_record) ==
  IF local_record = None THEN TRUE
  ELSE LET stored == local_record[1].last_synced_update_time
       IN  IF ~Parsable(stored) THEN TRUE
           ELSE LET local_time == parse(stored)
                IN  IF remote_update_time.aware /\ ~local_time.aware
                      THEN greater(strip_tz(remote_update_time), local_time)
                    ELSE IF ~remote_update_time.aware /\ local_time.aware
                      THEN greater(remote_update_time, strip_tz(local_time))
                    ELSE greater(remote_update_time, local_time)

----------------------------------------------------------------------------
\* State

VARIABLES
  environ,   \* the process environment: setting -> kind of its value
  tracker,   \* table sync_tracker: source_id -> None or Some(row)
  run,       \* per invocation of run_sync: its locals and its position
  last_clean, \* history: Some([items, reads_ok]) when the run that returned
             \* last published every one of its items and stored every tracker
             \* write (reads_ok: and all its tracker reads succeeded), else
             \* None; and None once the next run has fetched its own items
  last_sync_result, \* api_server's global: what GET /status returns
  request,   \* per invocation: the trigger that made it and how far its
             \* handler is
  clock,     \* what the next datetime.now() of the server returns
  status_response, \* the body of the last answer to GET /status; None before
  mirror     \* table sync_tracker of a backend other than SQLite that is
             \* given the same update_sync_record calls (SpecUpsert)

\* The variables of the HTTP server and the scheduler.
server == <<last_sync_result, request, clock, status_response>>

vars == <<environ, tracker, run, last_clean, server, mirror>>

\* History of one invocation: the calls made to the source adapters, to
\* get_sync_record, to the publisher and to update_sync_record; the reads that
\* returned a row; the uploads that returned an identifier and those that
\* returned None; the upserts for a returned identifier that failed.
NoCalls ==
  [fetch |-> 0, read |-> 0, publish |-> 0, write |-> 0,
   found |-> 0, returned_id |-> 0, returned_none |-> 0, lost |-> 0]

\* result as run_sync initialises it; end_time is FALSE for None.
InitialResult ==
  [status |-> "success", synced |-> 0, skipped |-> 0, failed |-> 0, total |-> 0,
   end_time |-> FALSE, message |-> "", error |-> None]

\* An invocation that has not started (or has returned to its caller).
\*   calls, read_failed, write_failed, upload, rerun, rerun_reads_ok, clean,
\*   reads_ok are history, not read by the program: whether the current item's
\*   tracker read / write failed and what its upload did; whether the fetched
\*   list is the one last_clean held (and the reads of that run succeeded);
\*   whether every item so far was published and stored; whether every
\*   tracker read so far succeeded; whether the Jira / the Confluence adapter
\*   failed (no client, or an exception inside it).
IdleRun ==
  [pc |-> "idle", all_items |-> <<>>, idx |-> 0,
   synced_count |-> 0, skipped_count |-> 0, failed_count |-> 0,
   local_record |-> None, should_sync |-> FALSE, dify_id |-> None,
   result |-> InitialResult,
   calls |-> NoCalls, read_failed |-> FALSE, write_failed |-> FALSE,
   upload |-> "none", rerun |-> FALSE, rerun_reads_ok |-> FALSE,
   clean |-> TRUE, reads_ok |-> TRUE,
   jira_failed |-> FALSE, confluence_failed |-> FALSE]

\* last_sync_result as the module initialises it.
NeverRun == [status |-> "never_run", message |-> "never_run", last_run_time |-> None]

\* No request made: mode is how run_sync was invoked ("blocking": POST /sync,
\* "async": POST /sync with async, "scheduled": the cron job), pc where the
\* handler is ("accepted": the handler or the thread it started has not yet
\* entered run_sync; "running": inside run_sync or just back from it;
\* "stamped", "stored", "finished": after it), last_run_time the stamp it put on its result, ack the answer the
\* client got, overlap whether run_sync began while another invocation of it
\* had not returned.
NoRequest ==
  [mode |-> "none", pc |-> "none", last_run_time |-> None, ack |-> "none",
   overlap |-> FALSE]

InitServer ==
  /\ last_sync_result = NeverRun
  /\ request = [r \in Runs |-> NoRequest]
  /\ clock = 0
  /\ status_response = None

Init ==
  /\ environ \in Environments
  /\ tracker = [id \in Ids |-> None]
  /\ run = [r \in Runs |-> IdleRun]
  /\ last_clean = None
  /\ mirror = [id \in Ids |-> None]
  /\ InitServer

\* Abort reporting the counts reached when the exception was raised.
Abort_with_partial_counts(s, exc) ==
  [s EXCEPT !.pc = "done", !.clean = FALSE,
            !.result = [InitialResult EXCEPT
               !.status = "error",
               !.synced = s.synced_count,
               !.skipped = s.skipped_count,
               !.failed = s.failed_count,
               !.error = Some([prefix |-> IF IsValueError(exc)
                                            THEN "config_error"
                                            ELSE "unexpected_error",
                               exc |-> exc]),
               !.end_time = TRUE]]

\* Abort letting the exception out of run_sync, the result never returned.
Abort_propagating(s, exc) == [s EXCEPT !.pc = "raised", !.clean = FALSE]

\* The except clauses of run_sync: a ValueError is reported as a configuration
\* error, any other exception as an unexpected error; the counts of the result
\* stay as initialised.
Abort(s, exc) ==
  [s EXCEPT !.pc = "done", !.clean = FALSE,
            !.result = [InitialResult EXCEPT
               !.status = "error",
               !.error = Some([prefix |-> IF IsValueError(exc)
                                            THEN "config_error"
                                            ELSE "unexpected_error",
                               exc |-> exc]),
               !.end_time = TRUE]]

\* The statistics block after the loop.
Aggregate(s) ==
  [s EXCEPT !.pc = "done",
            !.result = [InitialResult EXCEPT
               !.synced = s.synced_count,
               !.skipped = s.skipped_count,
               !.failed = s.failed_count,
               !.total = Len(s.all_items),
               !.message = "completed",
               !.end_time = TRUE]]

\* EmptyReturn going through the statistics block.
EmptyReturn_aggregating(s) == Aggregate(s)

\* The early return for an empty fetch list.
EmptyReturn(s) ==
  [s EXCEPT !.pc = "done", !.result.message = "nothing_to_sync",
            !.result.end_time = TRUE]

\* NextItem leaving the loop after an item whose upload returned None.
NextItem_break_on_failure(s) ==
  IF s.idx = Len(s.all_items) \/ s.upload = "returned_none"
    THEN Aggregate(s)
    ELSE [s EXCEPT !.pc = "lookup", !.idx = s.idx + 1,
                   !.local_record = None, !.should_sync = FALSE,
                   !.dify_id = None, !.read_failed = FALSE,
                   !.write_failed = FALSE, !.upload = "none"]

\* The end of one loop iteration: on to the next item, or out of the loop.
NextItem(s) ==
  IF s.idx = Len(s.all_items)
    THEN Aggregate(s)
    ELSE [s EXCEPT !.pc = "lookup", !.idx = s.idx + 1,
                   !.local_record = None, !.should_sync = FALSE,
                   !.dify_id = None, !.read_failed = FALSE,
                   !.write_failed = FALSE, !.upload = "none"]

\* The item the loop is at.
CurrentItem(r) == run[r].all_items[run[r].idx]

----------------------------------------------------------------------------
\* Actions of one invocation r of run_sync

\* Entry: result initialised, validate_config, setup_database.
Validate(r) ==
  /\ run[r].pc = "idle"
  /\ LET exc == validate_config(environ)
     IN  run' = [run EXCEPT ![r] =
                   IF exc # NoError
                     THEN Abort(IdleRun, exc)
                     ELSE [IdleRun EXCEPT !.pc = "fetch_jira"]]
  /\ UNCHANGED <<environ, tracker, last_clean>>

\* A call of a source adapter that never returns: the clients are built and
\* called without a timeout (connectors.py 19-28, 45, 78), so a source that
\* accepts the request and never completes its answer keeps run_sync there.
FetchBlocked(s) ==
  [s EXCEPT !.pc = "fetch_blocked", !.calls.fetch = @ + 1, !.clean = FALSE]

\* run_sync is inside a call that never returns, of a source adapter or of
\* the publisher.
Blocked(r) == run[r].pc \in {"fetch_blocked", "blocked"}

\* Step 1.1: the Jira issues.
FetchJira(r) ==
  /\ run[r].pc = "fetch_jira"
  /\ \/ \E client_fails \in BOOLEAN :
        \E found \in Listings(JiraIds, "JIRA") :
          LET client_ok == ~client_fails IN
          run' = [run EXCEPT ![r].pc = "fetch_confluence",
                             ![r].all_items = get_jira_issues(client_ok, found),
                             ![r].calls.fetch = @ + 1,
                             ![r].jira_failed = ~client_ok]
     \/ run' = [run EXCEPT ![r] = FetchBlocked(run[r])]
  /\ UNCHANGED <<environ, tracker, last_clean>>

\* What step 1.2 can add in this environment: nothing unless a space is
\* configured, else what get_confluence_pages returns, over every answer of
\* the source.
ConfluenceCalls(env) ==
  IF env["CONFLUENCE_SPACE_KEY"] # "configured"
    THEN {[called |-> FALSE, pages |-> <<>>, failed |-> FALSE, blocks |-> FALSE]}
    ELSE {[called |-> TRUE,
           pages |-> get_confluence_pages(~client_fails, found),
           failed |-> client_fails \/ \E i \in 1..Len(found) :
                                         ~Parsable(found[i].updated_at),
           blocks |-> FALSE] :
            client_fails \in BOOLEAN,
            found \in Listings(ConfluenceIds, "CONFLUENCE")}
         \cup {[called |-> TRUE, pages |-> <<>>, failed |-> FALSE, blocks |-> TRUE]}

\* Step 1.2: the Confluence pages, then the empty-list return or the loop entry.
FetchConfluence(r) ==
  /\ run[r].pc = "fetch_confluence"
  /\ IF environ["CONFLUENCE_SINCE_DAYS"] = "not_integer"
       THEN run' = [run EXCEPT ![r] =
                      Abort(run[r], [label |-> "ValueError", kind |-> "since_days",
                                     names |-> {}])]
       ELSE
     \E call \in ConfluenceCalls(environ) :
       LET called == call.called
           all_items == run[r].all_items \o call.pages
           failed == call.failed
           same == last_clean # None /\ last_clean[1].items = all_items
           s == [run[r] EXCEPT !.all_items = all_items,
                               !.calls.fetch = IF called THEN @ + 1 ELSE @,
                               !.confluence_failed = failed,
                               !.rerun = same,
                               !.rerun_reads_ok = same /\ last_clean[1].reads_ok]
       IN  /\ Len(all_items) <= MaxItems
           /\ run' = [run EXCEPT ![r] =
                        IF call.blocks
                          THEN FetchBlocked(run[r])
                        ELSE IF all_items = <<>>
                          THEN EmptyReturn(s)
                          ELSE [s EXCEPT !.pc = "lookup", !.idx = 1]]
  /\ last_clean' = None
  /\ UNCHANGED <<environ, tracker>>

\* Steps 3 and 4 for the current item: parse its updated_at, read its tracker
\* row, decide.
Lookup(r) ==
  /\ run[r].pc = "lookup"
  /\ LET item == CurrentItem(r)
     IN  IF ~Parsable(item.updated_at)
           THEN run' = [run EXCEPT ![r] =
                          Abort(run[r], isoparse_error(item.updated_at))]
           ELSE \E db_fails \in BOOLEAN :
                  LET db_ok == ~db_fails
                      out == get_sync_record(tracker, db_ok, item.id)
                      decision == should_sync(parse(item.updated_at), out.value)
                      s == [run[r] EXCEPT !.calls.read = @ + 1,
                                          !.calls.found =
                                             IF out.value # None THEN @ + 1 ELSE @,
                                          !.read_failed = ~db_ok,
                                          !.reads_ok = @ /\ db_ok]
                  IN  run' = [run EXCEPT ![r] =
                                IF out.raised
                                  THEN Abort(s, out.exc)
                                ELSE IF should_sync_raises(parse(item.updated_at),
                                                           out.value)
                                  THEN Abort([s EXCEPT !.local_record = out.value],
                                             TzinfoError)
                                  ELSE [s EXCEPT !.local_record = out.value,
                                                 !.should_sync = decision,
                                                 !.pc = IF decision THEN "upload"
                                                                    ELSE "skip"]]
  /\ UNCHANGED <<environ, tracker, last_clean>>

\* Skip that also upserts a row for the skipped item.
Skip_touching_row(r) ==
  /\ run[r].pc = "skip"
  /\ run' = [run EXCEPT ![r] =
                NextItem([run[r] EXCEPT !.skipped_count = @ + 1, !.clean = FALSE])]
  /\ tracker' = upsert(tracker, CurrentItem(r).id, CurrentItem(r).type,
                       parse(CurrentItem(r).updated_at), "", "SKIPPED")
  /\ UNCHANGED <<environ, last_clean>>

\* The else branch of the decision: the item is counted as skipped.
Skip(r) ==
  /\ run[r].pc = "skip"
  /\ run' = [run EXCEPT ![r] =
                NextItem([run[r] EXCEPT !.skipped_count = @ + 1, !.clean = FALSE])]
  /\ UNCHANGED <<environ, tracker, last_clean>>

\* What one call of upload_document_to_dify can do in this environment, over
\* every response of the destination.
UploadCalls(env) ==
  {[blocks |-> upload_blocks(env, resp),
    out |-> upload_document_to_dify(env, resp)] : resp \in Responses}

\* Step 5: the upload of the current item.
Upload(r) ==
  /\ run[r].pc = "upload"
  /\ \E call \in UploadCalls(environ) :
       LET item == CurrentItem(r)
           out == call.out
           s == [run[r] EXCEPT !.calls.publish = @ + 1]
       IN  run' = [run EXCEPT ![r] =
                     IF call.blocks
                       THEN [s EXCEPT !.pc = "blocked", !.upload = "blocked",
                                      !.clean = FALSE]
                     ELSE IF out.raised
                       THEN Abort([s EXCEPT !.upload = "raised"], out.exc)
                     ELSE IF Truthy(out.value)
                       THEN [s EXCEPT !.pc = "record", !.dify_id = out.value,
                                      !.upload = "returned_id",
                                      !.calls.returned_id = @ + 1]
                       ELSE [s EXCEPT !.pc = "record", !.dify_id = out.value,
                                      !.upload = "returned_none",
                                      !.calls.returned_none = @ + 1]]
  /\ UNCHANGED <<environ, tracker, last_clean>>

\* Step 6: the tracker write for the current item and its count.
Record(r) ==
  /\ run[r].pc = "record"
  /\ \E db_fails \in BOOLEAN :
       LET db_ok == ~db_fails
           item == CurrentItem(r)
           remote_update_time == parse(item.updated_at)
           ok == Truthy(run[r].dify_id)
           out == update_sync_record(tracker, db_ok, item.id, item.type,
                    remote_update_time,
                    IF ok THEN run[r].dify_id[1] ELSE "",
                    IF ok THEN "SUCCESS" ELSE "FAILED")
           s == [run[r] EXCEPT !.calls.write = @ + 1, !.write_failed = ~db_ok,
                               !.calls.lost = IF ok /\ ~db_ok THEN @ + 1 ELSE @,
                               !.clean = @ /\ ok /\ db_ok]
       IN  IF out.raised
             THEN /\ run' = [run EXCEPT ![r] = Abort(s, out.exc)]
                  /\ UNCHANGED tracker
             ELSE /\ tracker' = out.value
                  /\ run' = [run EXCEPT ![r] =
                               [s EXCEPT !.pc = "recorded",
                                         !.synced_count = IF ok THEN @ + 1 ELSE @,
                                         !.failed_count = IF ok THEN @ ELSE @ + 1]]
  /\ UNCHANGED <<environ, last_clean>>

\* The loop moves on after a recorded item.
Continue(r) ==
  /\ run[r].pc = "recorded"
  /\ run' = [run EXCEPT ![r] = NextItem(run[r])]
  /\ UNCHANGED <<environ, tracker, last_clean>>

\* run_sync has returned; the caller is free to invoke it again.
Return(r) ==
  /\ run[r].pc = "done"
  /\ run' = [run EXCEPT ![r] = IdleRun]
  /\ last_clean' = IF run[r].clean /\ run[r].all_items # <<>>
                     THEN Some([items |-> run[r].all_items,
                                reads_ok |-> run[r].reads_ok])
                     ELSE None
  /\ UNCHANGED <<environ, tracker>>

Step(r) ==
  \/ Validate(r)
  \/ FetchJira(r)
  \/ FetchConfluence(r)
  \/ Lookup(r)
  \/ Skip(r)
  \/ Upload(r)
  \/ Record(r)
  \/ Continue(r)
  \/ Return(r)

\* Invocations one after the other: the command line and the scheduler.
Next == Step(1) /\ UNCHANGED <<server, mirror>>

Spec == Init /\ [][Next]_vars

\* The tracker file outlives the process.  Rows an earlier process or a manual
\* edit may have left in it: SQLite stores any text in the DATETIME column, and
\* stores text that looks like a number as a number.
StoredRows ==
  {Row("JIRA", t, d, "SUCCESS") : t \in {Malformed, Numeric}, d \in DocIds}

\* A start with valid settings on a tracker that holds such a row for "A".
InitStored ==
  /\ environ = ValidEnvironment
  /\ tracker \in {[id \in Ids |-> IF id = "A" THEN Some(row) ELSE None] :
                     row \in StoredRows}
  /\ run = [r \in Runs |-> IdleRun]
  /\ last_clean = None
  /\ mirror = [id \in Ids |-> None]
  /\ InitServer

SpecStored == InitStored /\ [][Next]_vars

\* One invocation of run_sync from its call to its return (python main.py).
NextRun ==
  /\ \/ Validate(1)
     \/ FetchJira(1)
     \/ FetchConfluence(1)
     \/ Lookup(1)
     \/ Skip(1)
     \/ Upload(1)
     \/ Record(1)
     \/ Continue(1)
  /\ UNCHANGED <<server, mirror>>

\* The process keeps running until run_sync has returned.
SpecRun == Init /\ [][NextRun]_vars /\ WF_vars(NextRun)

----------------------------------------------------------------------------
\* HTTP server and scheduler (api_server.py, server.py): two requests

Modes == {"blocking", "async", "scheduled"}

\* Stamped leaving last_run_time out of the result.
Stamped_without_time(result, t) ==
  [k \in DOMAIN result \cup {"last_run_time"} |->
     IF k = "last_run_time" THEN None ELSE result[k]]

\* result after result['last_run_time'] = datetime.now().isoformat().
Stamped(result, t) ==
  [k \in DOMAIN result \cup {"last_run_time"} |->
     IF k = "last_run_time" THEN Some(t) ELSE result[k]]

\* The server is watched in a small world: Jira holds issue "A" (or nothing),
\* updated at T or T + 1 s, no Confluence space is configured; the Jira
\* adapter answers without failure or never answers, the tracker store
\* works.  ServerScope(s) says that invocation s is within it.
ServerItems == {Item("A", "JIRA", isoformat(dt)) : dt \in NaiveTimes}
ServerScope(s) ==
  /\ \A i \in 1..Len(s.all_items) : s.all_items[i] \in ServerItems
  /\ ~s.jira_failed /\ ~s.confluence_failed
  /\ ~s.read_failed /\ ~s.write_failed

\* Another invocation of run_sync than r's has begun and not returned.
Overlapping(r) ==
  \E q \in Runs \ {r} : request[q].pc = "running" /\ run[q].pc # "done"

\* TriggerSync turning the request down while another invocation is in flight.
TriggerSync_exclusive(r) ==
  /\ request[r].mode = "none"
  /\ \A q \in Runs \ {r} : request[q].pc \notin {"accepted", "running", "stamped"}
  /\ \E mode \in {"blocking", "async"} :
       request' = [request EXCEPT ![r].mode = mode, ![r].pc = "accepted"]
  /\ UNCHANGED <<environ, tracker, mirror, run, last_clean, last_sync_result,
                 clock, status_response>>

\* POST /sync arrives: trigger_sync is about to call run_sync itself
\* ("blocking"), or has started the thread that will call it ("async").
TriggerSync(r) ==
  /\ request[r].mode = "none"
  /\ \E mode \in {"blocking", "async"} :
       request' = [request EXCEPT ![r].mode = mode, ![r].pc = "accepted"]
  /\ UNCHANGED <<environ, tracker, mirror, run, last_clean, last_sync_result,
                 clock, status_response>>

\* An instance of the cron job is running: fired and not returned.
JobRunning(q) ==
  request[q].mode = "scheduled" /\ request[q].pc \in {"accepted", "running"}

\* The cron trigger fires scheduled_sync_job, which is about to call run_sync.
\* The job is added with the scheduler's default of one running instance: the
\* trigger starts no second instance while one is running.
ScheduledJob(r) ==
  /\ request[r].mode = "none"
  /\ \A q \in Runs \ {r} : ~JobRunning(q)
  /\ request' = [request EXCEPT ![r].mode = "scheduled", ![r].pc = "accepted"]
  /\ UNCHANGED <<environ, tracker, mirror, run, last_clean, last_sync_result,
                 clock, status_response>>

\* The handler, the thread or the job of request r enters run_sync.
EnterRunSync(r) ==
  /\ request[r].pc = "accepted"
  /\ request' = [request EXCEPT ![r].pc = "running",
                                ![r].overlap = Overlapping(r)]
  /\ UNCHANGED <<environ, tracker, mirror, run, last_clean, last_sync_result,
                 clock, status_response>>

\* One step of run_sync inside the thread of request r.
RunStep(r) ==
  /\ request[r].pc = "running"
  /\ \/ Validate(r)
     \/ FetchJira(r)
     \/ FetchConfluence(r)
     \/ Lookup(r)
     \/ Skip(r)
     \/ Upload(r)
     \/ Record(r)
     \/ Continue(r)
  /\ ServerScope(run'[r])
  /\ UNCHANGED <<server, mirror>>

\* run_sync has returned to trigger_sync / async_sync, which stamps the result.
Stamp(r) ==
  /\ request[r].pc = "running" /\ request[r].mode \in {"blocking", "async"}
  /\ run[r].pc = "done"
  /\ request' = [request EXCEPT ![r].pc = "stamped",
                                ![r].last_run_time = Some(clock)]
  /\ clock' = clock + 1
  /\ UNCHANGED <<environ, tracker, mirror, run, last_clean, last_sync_result,
                 status_response>>

\* StoreResult dropping the result of an async run.
StoreResult_discarding(r) ==
  /\ request[r].pc = "stamped"
  /\ last_sync_result' =
       IF request[r].mode = "async" THEN last_sync_result
       ELSE Stamped(run[r].result, request[r].last_run_time[1])
  /\ request' = [request EXCEPT ![r].pc = "stored",
                                ![r].ack = IF request[r].mode = "blocking"
                                             THEN "report" ELSE @]
  /\ UNCHANGED <<environ, tracker, mirror, run, last_clean, clock, status_response>>

\* last_sync_result = result; the blocking handler then answers with it.
StoreResult(r) ==
  /\ request[r].pc = "stamped"
  /\ last_sync_result' = Stamped(run[r].result, request[r].last_run_time[1])
  /\ request' = [request EXCEPT ![r].pc = "stored",
                                ![r].ack = IF request[r].mode = "blocking"
                                             THEN "report" ELSE @]
  /\ UNCHANGED <<environ, tracker, mirror, run, last_clean, clock, status_response>>

\* run_sync has returned to scheduled_sync_job, which logs and returns it.
JobReturn(r) ==
  /\ request[r].pc = "running" /\ request[r].mode = "scheduled"
  /\ run[r].pc = "done"
  /\ request' = [request EXCEPT ![r].pc = "finished"]
  /\ UNCHANGED <<environ, tracker, mirror, run, last_clean, last_sync_result, clock,
                 status_response>>

\* trigger_sync answers the async request after thread.start().
Acknowledge(r) ==
  /\ request[r].mode = "async" /\ request[r].ack = "none"
  /\ request' = [request EXCEPT ![r].ack = "started"]
  /\ UNCHANGED <<environ, tracker, mirror, run, last_clean, last_sync_result, clock,
                 status_response>>

\* GET /status.
get_status ==
  /\ status_response' = Some(last_sync_result)
  /\ UNCHANGED <<environ, tracker, mirror, run, last_clean, last_sync_result, request,
                 clock>>

\* What the thread of request r does once the request is made.
Thread(r) ==
  \/ EnterRunSync(r)
  \/ RunStep(r)
  \/ Stamp(r)
  \/ StoreResult(r)
  \/ JobReturn(r)
  \/ Acknowledge(r)

NextServer ==
  \/ \E r \in Runs : TriggerSync(r)
  \/ \E r \in Runs : ScheduledJob(r)
  \/ \E r \in Runs : Thread(r)
  \/ get_status

\* The world of ServerScope with a tracker store that may fail: a read or a
\* write of the tracker may raise inside get_sync_record / update_sync_record.
StoreFaultScope(s) ==
  /\ \A i \in 1..Len(s.all_items) : s.all_items[i] \in ServerItems
  /\ ~s.jira_failed /\ ~s.confluence_failed

\* One step of run_sync inside the thread of request r, the store may fail.
RunStepStoreFaults(r) ==
  /\ request[r].pc = "running"
  /\ \/ Validate(r)
     \/ FetchJira(r)
     \/ FetchConfluence(r)
     \/ Lookup(r)
     \/ Skip(r)
     \/ Upload(r)
     \/ Record(r)
     \/ Continue(r)
  /\ StoreFaultScope(run'[r])
  /\ UNCHANGED <<server, mirror>>

\* Requests arrive and their invocations of run_sync run, one after the other
\* or interleaved.
NextInvocations ==
  \/ \E r \in Runs : TriggerSync(r)
  \/ \E r \in Runs : ScheduledJob(r)
  \/ \E r \in Runs : EnterRunSync(r)
  \/ \E r \in Runs : RunStepStoreFaults(r)

\* What run_sync passes as identifier and status: a truthy identifier with
\* SUCCESS, or the empty string with FAILED.
Written ==
  {<<doc, "SUCCESS">> : doc \in DocIds \cup {"uploaded_without_id"}}
    \cup {<<"", "FAILED">>}

\* One call of update_sync_record, made on the SQLite table (tracker) and on
\* the table of another backend (mirror).
UpdateSyncRecord ==
  /\ \E source_id \in Ids, source_type \in {"JIRA", "CONFLUENCE"},
        updated_at \in DateTimes, w \in Written, db_fails \in BOOLEAN :
       LET db_ok == ~db_fails
       IN  /\ tracker' = update_sync_record_on("sqlite", tracker, db_ok,
                            source_id, source_type, updated_at, w[1], w[2]).value
           /\ mirror' = update_sync_record_on("postgresql", mirror, db_ok,
                            source_id, source_type, updated_at, w[1], w[2]).value
  /\ UNCHANGED <<environ, run, last_clean, server>>

NextUpsert == UpdateSyncRecord

\* Both tables empty after setup_database.
InitUpsert ==
  /\ environ = ValidEnvironment
  /\ tracker = [id \in Ids |-> None]
  /\ mirror = [id \in Ids |-> None]
  /\ run = [r \in Runs |-> IdleRun]
  /\ last_clean = None
  /\ InitServer

SpecUpsert == InitUpsert /\ [][NextUpsert]_vars

\* A server started with valid settings, or with the destination key unset.
InitRequests ==
  /\ environ \in {[ValidEnvironment EXCEPT !["CONFLUENCE_SPACE_KEY"] = "not_configured",
                                            !["DIFY_API_KEY"] = key] :
                     key \in {"real", "unset"}}
  /\ tracker = [id \in Ids |-> None]
  /\ run = [r \in Runs |-> IdleRun]
  /\ last_clean = None
  /\ mirror = [id \in Ids |-> None]
  /\ InitServer

SpecInvocations == InitRequests /\ [][NextInvocations]_vars

\* Threads that exist keep running.
SpecServer ==
  InitRequests /\ [][NextServer]_vars /\ \A r \in Runs : WF_vars(Thread(r))

----------------------------------------------------------------------------
\* Properties

\* The settings validate_config has to reject.
Offending == {n \in Settings : environ[n] = "unset" \/ Template(environ[n])}

\* The loop of r has decided on its current item and not moved on.
Decided(r) == run[r].pc \in {"upload", "skip"}

\* The tracker row of item's id is the one a failed publication of this
\* version of item leaves.
FailedAt(item) ==
  /\ tracker[item.id] # None
  /\ tracker[item.id][1].last_sync_status = "FAILED"
  /\ tracker[item.id][1].dify_document_id = ""
  /\ Parsable(tracker[item.id][1].last_synced_update_time)
  /\ Parsable(item.updated_at)
  /\ parse(tracker[item.id][1].last_synced_update_time) = parse(item.updated_at)

\* No exception has left a step of r: every item parses, no upload raised.
NoException(r) ==
  /\ environ["CONFLUENCE_SINCE_DAYS"] = "integer"
  /\ \A i \in 1..Len(run[r].all_items) : Parsable(run[r].all_items[i].updated_at)
  /\ run[r].upload # "raised"
  /\ run[r].local_record # None =>
       IsString(run[r].local_record[1].last_synced_update_time)

\* C1 as stated: a run over the list that the run before it published
\* completely, every write stored, reports synced = 0, failed = 0,
\* skipped = total and calls the publisher not once.
C1_RerunSkipsEverything ==
  \A r \in Runs :
    (run[r].pc = "done" /\ run[r].rerun) =>
      /\ run[r].result.synced = 0
      /\ run[r].result.failed = 0
      /\ run[r].result.skipped = run[r].result.total
      /\ run[r].calls.publish = 0

\* C1 amended: the same, when every tracker read of the two runs succeeds
\* (a failed read is answered by publishing the item again, whatever its row).
C1_RerunSkipsEverythingWhenReadsSucceed ==
  \A r \in Runs :
    (run[r].pc = "done" /\ run[r].rerun_reads_ok /\ run[r].reads_ok) =>
      /\ run[r].result.status = "success"
      /\ run[r].result.synced = 0
      /\ run[r].result.failed = 0
      /\ run[r].result.skipped = run[r].result.total
      /\ run[r].result.total = Len(run[r].all_items)
      /\ run[r].calls.publish = 0

\* A second run over two items, all reads good, has finished.
C1_Witness ==
  \E r \in Runs :
    /\ run[r].pc = "done" /\ run[r].rerun_reads_ok /\ run[r].reads_ok
    /\ Len(run[r].all_items) = 2
    /\ run[r].result.skipped = 2

\* C2: a run in which every upload returned (an identifier or None) and every
\* item parsed looks up every item, ends with status success, reports the
\* uploads that returned an identifier as synced, those that returned None as
\* failed, the rest as skipped, and skips nothing when no lookup found a row.
C2_PartialFailureIsolation ==
  \A r \in Runs :
    (run[r].pc = "done" /\ run[r].all_items # <<>> /\ NoException(r)) =>
      /\ run[r].result.status = "success"
      /\ run[r].calls.read = Len(run[r].all_items)
      /\ run[r].result.total = Len(run[r].all_items)
      /\ run[r].result.synced = run[r].calls.returned_id
      /\ run[r].result.failed = run[r].calls.returned_none
      /\ run[r].result.skipped = Len(run[r].all_items) - run[r].calls.publish
      /\ run[r].calls.found = 0 => run[r].result.skipped = 0

\* A finished run of first-seen items: the first upload returned None, the
\* second an identifier.
C2_Witness ==
  \E r \in Runs :
    /\ run[r].pc = "done" /\ run[r].result.status = "success"
    /\ run[r].calls.found = 0
    /\ run[r].upload = "returned_id"
    /\ run[r].result.synced = 1 /\ run[r].result.failed = 1
    /\ run[r].result.skipped = 0 /\ run[r].result.total = 2

\* C3 as stated: a run that entered the loop ends with status success and
\* has counted every item of its list, and an item whose upload raised has a
\* FAILED row with an empty identifier.
C3_LoopNeverAborts ==
  \A r \in Runs :
    (run[r].pc = "done" /\ run[r].idx >= 1) =>
      /\ run[r].result.status = "success"
      /\ run[r].synced_count + run[r].skipped_count + run[r].failed_count
           = Len(run[r].all_items)
      /\ run[r].result.total = Len(run[r].all_items)
      /\ run[r].upload = "raised" => FailedAt(CurrentItem(r))

\* C4: with an offending setting a started run has returned at once: status
\* error, all counts 0, an error detail, and not one call to a source adapter,
\* the publisher or the tracker store.
C4_ConfigAbort ==
  \A r \in Runs :
    (run[r].pc # "idle" /\ Offending # {}) =>
      /\ run[r].pc = "done"
      /\ run[r].result.status = "error"
      /\ run[r].result.synced = 0 /\ run[r].result.skipped = 0
      /\ run[r].result.failed = 0 /\ run[r].result.total = 0
      /\ run[r].result.error # None
      /\ run[r].calls = NoCalls

\* A run has aborted on a template value, nothing being unset.
C4_Witness ==
  \E r \in Runs :
    /\ run[r].pc = "done" /\ run[r].result.status = "error"
    /\ environ["DIFY_API_KEY"] = "template"
    /\ \A n \in Settings : environ[n] # "unset"

\* C5 as stated: the error detail of a run aborted by validation names every
\* offending setting, the unset ones and the template ones.
C5_ErrorNamesEveryOffender ==
  \A r \in Runs :
    (run[r].pc = "done" /\ Offending # {}) =>
      /\ run[r].result.error # None
      /\ run[r].result.error[1].exc.names = Offending

\* C6 as stated: an item whose upsert failed after the upload returned an
\* identifier is counted in failed, not in synced, and the run ends with
\* status success.
C6_WriteFailureCountsAsFailed ==
  \A r \in Runs :
    /\ run[r].pc = "recorded" =>
         /\ run[r].synced_count = run[r].calls.returned_id - run[r].calls.lost
         /\ run[r].failed_count = run[r].calls.returned_none + run[r].calls.lost
    /\ (run[r].pc = "done" /\ run[r].calls.lost > 0 /\ NoException(r)) =>
         run[r].result.status = "success"

\* C7: an item whose tracker read failed is treated as having no row: the
\* decision is SYNC, the upload is made, and the failure ends no run.
C7_ReadFailureFailsOpen ==
  \A r \in Runs :
    run[r].read_failed =>
      /\ run[r].local_record = None
      /\ run[r].should_sync
      /\ run[r].pc \in {"upload", "record", "recorded", "done", "blocked"}
      /\ run[r].pc # "upload" => run[r].upload # "none"
      /\ (run[r].pc = "done" /\ run[r].upload # "raised") =>
            run[r].result.status = "success"

\* After a failed read the upload was made of an item whose row would have
\* given SKIP.
C7_Witness ==
  \E r \in Runs :
    /\ run[r].pc = "record" /\ run[r].read_failed
    /\ tracker[CurrentItem(r).id] # None
    /\ ~should_sync(parse(CurrentItem(r).updated_at), tracker[CurrentItem(r).id])

\* C8 as stated: once the upload of an item returned None and the item is
\* recorded, its row is FAILED with an empty identifier and the item's
\* updated_at; and an item that meets such a row of its own version is
\* skipped, no upload made.
C8_FailedItemNeverRetried ==
  \A r \in Runs :
    /\ (run[r].pc = "recorded" /\ run[r].upload = "returned_none") =>
          FailedAt(CurrentItem(r))
    /\ (Decided(r) /\ FailedAt(CurrentItem(r))) =>
          run[r].pc = "skip" /\ run[r].upload = "none"

\* C8 amended: the row is as stated when the upsert was stored, and the item
\* is skipped when the read of that row succeeds.
C8_FailedItemNotRetriedWhileRowReadable ==
  \A r \in Runs :
    /\ (run[r].pc = "recorded" /\ run[r].upload = "returned_none"
          /\ ~run[r].write_failed) =>
          FailedAt(CurrentItem(r))
    /\ (Decided(r) /\ FailedAt(CurrentItem(r)) /\ ~run[r].read_failed) =>
          run[r].pc = "skip" /\ run[r].upload = "none"

\* A later run skips the item whose failed publication left the row.
C8_Witness ==
  \E r \in Runs :
    /\ run[r].pc = "skip" /\ ~run[r].read_failed
    /\ FailedAt(CurrentItem(r))
    /\ run[r].calls.publish = 0

\* C9: an item for whose id the lookup found no row is decided SYNC and
\* uploaded, whatever its updated_at.
C9_FirstSeenAlwaysSynced ==
  \A r \in Runs :
    (run[r].pc \in {"upload", "skip", "record", "recorded"}
       /\ ~run[r].read_failed /\ run[r].local_record = None) =>
      /\ run[r].should_sync
      /\ run[r].pc # "skip"
      /\ run[r].pc # "upload" => run[r].upload # "none"

\* A first-seen item has been uploaded.
C9_Witness ==
  \E r \in Runs :
    /\ run[r].pc = "record" /\ ~run[r].read_failed
    /\ run[r].local_record = None
    /\ tracker[CurrentItem(r).id] = None
    /\ CurrentItem(r).updated_at.clock = 0

\* The reading of dt that a comparison with other uses: the instant when both
\* carry an offset, the clock reading otherwise.
Reading(dt, other) ==
  IF dt.aware /\ other.aware THEN dt.clock - dt.off ELSE dt.clock

\* C10: for an item whose lookup found a row with a parsable timestamp the
\* decision is SYNC exactly when the remote updated_at is strictly later than
\* the stored one: SKIP when they are equal, SYNC when it is one second later.
C10_StrictComparison ==
  \A r \in Runs :
    (Decided(r) /\ run[r].local_record # None
       /\ Parsable(run[r].local_record[1].last_synced_update_time)) =>
      LET remote == parse(CurrentItem(r).updated_at)
          local == parse(run[r].local_record[1].last_synced_update_time)
      IN  /\ run[r].should_sync <=> Reading(remote, local) > Reading(local, remote)
          /\ run[r].should_sync <=> run[r].pc = "upload"
          /\ remote = local => run[r].pc = "skip"
          /\ (remote.aware = local.aware /\ remote.off = local.off
                /\ remote.clock = local.clock + 1) => run[r].pc = "upload"

\* A row stored at T meets the remote timestamp T + 1 s and the decision is SYNC.
C10_Witness ==
  \E r \in Runs :
    /\ run[r].pc = "upload" /\ run[r].local_record # None
    /\ LET remote == parse(CurrentItem(r).updated_at)
           local == parse(run[r].local_record[1].last_synced_update_time)
       IN  remote.aware /\ local.aware /\ remote.clock = local.clock + 1

\* C11: when exactly one of the remote and the stored timestamp carries an
\* offset, the decision compares the two clock readings as they stand (the
\* offset is dropped, the reading not shifted): equal readings give SKIP, one
\* second later gives SYNC; when both or neither carry one, the decision is the
\* direct comparison.
C11_MixedAwareness ==
  \A r \in Runs :
    (Decided(r) /\ run[r].local_record # None
       /\ Parsable(run[r].local_record[1].last_synced_update_time)) =>
      LET remote == parse(CurrentItem(r).updated_at)
          local == parse(run[r].local_record[1].last_synced_update_time)
      IN  /\ remote.aware # local.aware =>
                /\ run[r].should_sync <=> remote.clock > local.clock
                /\ remote.clock = local.clock => run[r].pc = "skip"
                /\ remote.clock = local.clock + 1 => run[r].pc = "upload"
          /\ remote.aware = local.aware =>
                (run[r].should_sync <=> greater(remote, local))

\* A remote timestamp with an offset meets a stored one without, one second
\* earlier on the clock, and the decision is SYNC.
C11_Witness ==
  \E r \in Runs :
    /\ run[r].pc = "upload" /\ run[r].local_record # None
    /\ LET remote == parse(CurrentItem(r).updated_at)
           local == parse(run[r].local_record[1].last_synced_update_time)
       IN  remote.aware /\ ~local.aware /\ remote.clock = local.clock + 1

\* C12: when the looked-up row holds a timestamp string that cannot be parsed,
\* the decision is SYNC whatever the remote updated_at, the run goes on to the
\* upload, and a run in which this happened and nothing raised ends with
\* status success.
C12_UnparsableStoredTimeFailsOpen ==
  \A r \in Runs :
    /\ (Decided(r) /\ run[r].local_record # None
          /\ IsString(run[r].local_record[1].last_synced_update_time)
          /\ ~Parsable(run[r].local_record[1].last_synced_update_time)) =>
         run[r].should_sync /\ run[r].pc = "upload"
    /\ (run[r].pc \in {"record", "recorded", "done"} /\ run[r].upload # "raised"
          /\ run[r].local_record # None
          /\ IsString(run[r].local_record[1].last_synced_update_time)
          /\ ~Parsable(run[r].local_record[1].last_synced_update_time)) =>
         /\ run[r].upload \in {"returned_id", "returned_none"}
         /\ run[r].pc = "done" => run[r].result.status = "success"

\* The row with the unparsable time was met by a remote time and the item
\* went to the upload.
C12_Witness ==
  \E r \in Runs :
    /\ run[r].pc = "record" /\ ~run[r].read_failed
    /\ run[r].local_record # None
    /\ IsString(run[r].local_record[1].last_synced_update_time)
    /\ ~Parsable(run[r].local_record[1].last_synced_update_time)
    /\ CurrentItem(r).updated_at.clock = 0

\* C13: a run whose two fetches have returned without any item has returned
\* status success, total 0 and all counts 0, the nothing-to-sync message and
\* an end_time, and made no publisher call and no tracker read or write.
C13_EmptySourceSet ==
  \A r \in Runs :
    (run[r].calls.fetch = 2 /\ ~Blocked(r) /\ run[r].all_items = <<>>) =>
      /\ run[r].pc = "done"
      /\ run[r].result.status = "success"
      /\ run[r].result.total = 0 /\ run[r].result.synced = 0
      /\ run[r].result.skipped = 0 /\ run[r].result.failed = 0
      /\ run[r].result.message = "nothing_to_sync"
      /\ run[r].result.end_time
      /\ run[r].result.error = None
      /\ run[r].calls.publish = 0 /\ run[r].calls.read = 0
      /\ run[r].calls.write = 0

\* Both adapters worked, found nothing, and the run has returned.
C13_Witness ==
  \E r \in Runs :
    /\ run[r].pc = "done" /\ run[r].calls.fetch = 2 /\ run[r].all_items = <<>>
    /\ ~run[r].jira_failed /\ ~run[r].confluence_failed

\* C14: a failed adapter contributes no item and the other source is fetched
\* all the same (Confluence: when a space is configured); the items of the
\* other source are looked up, and the run does not end with status error
\* unless an exception of the loop ended it.
C14_FetchFailureDegradesOneSource ==
  \A r \in Runs :
    /\ (run[r].jira_failed /\ run[r].pc = "fetch_confluence") =>
         run[r].all_items = <<>>
    /\ (run[r].jira_failed \/ run[r].confluence_failed) =>
         /\ (/\ run[r].pc # "fetch_confluence"
             /\ environ["CONFLUENCE_SPACE_KEY"] = "configured"
             /\ environ["CONFLUENCE_SINCE_DAYS"] = "integer") =>
              run[r].calls.fetch = 2
         /\ \A i \in 1..Len(run[r].all_items) :
              /\ run[r].jira_failed => run[r].all_items[i].type = "CONFLUENCE"
              /\ run[r].confluence_failed => run[r].all_items[i].type = "JIRA"
         /\ (run[r].pc = "done" /\ NoException(r)) =>
              /\ run[r].result.status = "success"
              /\ run[r].result.total = Len(run[r].all_items)
              /\ run[r].calls.read = Len(run[r].all_items)

\* The Jira adapter failed and the page Confluence returned was published.
C14_Witness ==
  \E r \in Runs :
    /\ run[r].pc = "done" /\ run[r].jira_failed /\ ~run[r].confluence_failed
    /\ Len(run[r].all_items) = 1
    /\ run[r].result.status = "success" /\ run[r].result.synced = 1

\* C15 as stated: a run whose report has status error made no publisher call
\* and no tracker write.
C15_ErrorOnlyBeforeReconciliation ==
  \A r \in Runs :
    (run[r].pc = "done" /\ run[r].result.status = "error") =>
      run[r].calls.publish = 0 /\ run[r].calls.write = 0

\* C17: the tracker holds at most one row per source id (it is keyed by the
\* id), no step removes a row, and a step changes the row of an id only by the
\* upsert of a run whose current item has that id, which leaves exactly the
\* values of that upsert there (type, the item's time, identifier, status).
C17_TrackerOnlyGrows ==
  [][\A id \in Ids :
       /\ tracker[id] # None => tracker'[id] # None
       /\ tracker'[id] # tracker[id] =>
            \E r \in Runs :
              /\ run[r].pc = "record" /\ run'[r].pc = "recorded"
              /\ CurrentItem(r).id = id
              /\ tracker'[id] =
                   Some(Row(CurrentItem(r).type,
                            isoformat(parse(CurrentItem(r).updated_at)),
                            IF Truthy(run[r].dify_id) THEN run[r].dify_id[1] ELSE "",
                            IF Truthy(run[r].dify_id) THEN "SUCCESS" ELSE "FAILED"))]_vars

\* The row a lookup found has been overwritten by the upsert of a failed
\* publication of a newer version.
C17_Witness ==
  \E r \in Runs :
    /\ run[r].pc = "recorded" /\ ~run[r].write_failed /\ ~run[r].read_failed
    /\ run[r].local_record # None
    /\ run[r].local_record[1].last_sync_status = "SUCCESS"
    /\ tracker[CurrentItem(r).id] # None
    /\ tracker[CurrentItem(r).id][1].last_sync_status = "FAILED"

\* The exception that has been raised inside run_sync in this invocation, or
\* NoError: validate_config's, isoparse's on the current item, the publisher's.
RaisedIn(r) ==
  IF run[r].pc = "idle" THEN NoError
  ELSE IF validate_config(environ) # NoError THEN validate_config(environ)
  ELSE IF run[r].upload = "raised"
    THEN IF Unsendable(environ["DIFY_API_KEY"]) THEN HeaderValueError
         ELSE AttributeError
  ELSE IF /\ run[r].pc = "done" /\ run[r].idx >= 1
          /\ should_sync_raises(parse(CurrentItem(r).updated_at), run[r].local_record)
    THEN TzinfoError
  ELSE IF run[r].pc = "done" /\ environ["CONFLUENCE_SINCE_DAYS"] = "not_integer"
    THEN [label |-> "ValueError", kind |-> "since_days", names |-> {}]
  ELSE IF /\ run[r].idx >= 1 /\ run[r].pc = "done"
          /\ ~Parsable(CurrentItem(r).updated_at)
    THEN isoparse_error(CurrentItem(r).updated_at)
  ELSE NoError

\* A returned report has an end_time; when an exception was raised inside
\* run_sync the report has status error and an error detail that holds that
\* exception, otherwise it has status success and no error detail.
ReportAsStated(r) ==
  run[r].pc = "done" =>
    /\ run[r].result.end_time
    /\ RaisedIn(r) # NoError =>
         /\ run[r].result.status = "error"
         /\ run[r].result.error # None
         /\ run[r].result.error[1].exc = RaisedIn(r)
    /\ RaisedIn(r) = NoError =>
         /\ run[r].result.status = "success"
         /\ run[r].result.error = None

\* C16: no exception leaves run_sync, and every invocation either returns a
\* report or stays for ever in a call that never returns, of a source adapter
\* whose source never answers or of the publisher whose destination never
\* answers; a returned report is as stated (end_time set; status error with
\* the exception in the error detail when one was raised).
C16_ReturnsReportUnlessBlocked ==
  /\ [](ReportAsStated(1) /\ run[1].pc # "raised")
  /\ <>(run[1].pc = "done" \/ Blocked(1))

\* C16 as stated: every invocation of run_sync terminates by returning a
\* report, which is as stated.
C16_AlwaysReturnsReport ==
  /\ []ReportAsStated(1)
  /\ <>(run[1].pc = "done")

\* run_sync has returned the report of a run that an exception of the
\* publisher ended after one item had been recorded.
C16_Witness ==
  /\ run[1].pc = "done" /\ run[1].upload = "raised"
  /\ run[1].idx = 2 /\ run[1].calls.write = 1
  /\ run[1].result.status = "error" /\ run[1].result.end_time

\* Positions inside the reconcile loop.
LoopPcs == {"lookup", "upload", "skip", "record", "recorded"}

\* Request r has been made and its invocation of run_sync has not returned.
InFlightRun(r) == request[r].pc = "running" /\ run[r].pc # "done"

\* C18: POST /sync can always be made, in either mode, whatever another
\* invocation is doing; the cron job starts when it fires unless an instance
\* of the cron job is still running, and then that firing is skipped; an
\* accepted request can always enter run_sync, and an invocation in flight
\* that is not inside a call that never returns can always take its next
\* step: nothing waits for another invocation.
C18_NoMutualExclusionButOneCronInstance ==
  \A r \in Runs :
    /\ request[r].mode = "none" =>
         /\ ENABLED TriggerSync(r)
         /\ (\A q \in Runs \ {r} : ~JobRunning(q)) => ENABLED ScheduledJob(r)
         /\ (\E q \in Runs \ {r} : JobRunning(q)) => ~ENABLED ScheduledJob(r)
    /\ request[r].pc = "accepted" => ENABLED EnterRunSync(r)
    /\ (InFlightRun(r) /\ ~Blocked(r)) => ENABLED RunStep(r)

\* C18 as stated: a request can always be made through each of the three
\* ways, the cron job included, whatever another invocation is doing, and it
\* starts at once.
C18_NoMutualExclusion ==
  \A r \in Runs :
    /\ request[r].mode = "none" =>
         ENABLED TriggerSync(r) /\ ENABLED ScheduledJob(r)
    /\ request[r].pc = "accepted" => ENABLED EnterRunSync(r)
    /\ (InFlightRun(r) /\ ~Blocked(r)) => ENABLED RunStep(r)

\* Two invocations are inside the reconcile loop at once, one started by the
\* cron job, one by an async POST /sync.
C18_Witness ==
  /\ \A r \in Runs : request[r].pc = "running" /\ run[r].pc \in LoopPcs
  /\ \E r \in Runs : request[r].mode = "scheduled"
  /\ \E r \in Runs : request[r].mode = "async"

\* The stamped report of request r, as its handler stores it.
OwnReport(r) == Stamped(run[r].result, request[r].last_run_time[1])

\* The safety part of C19: the async request can be answered "started" from
\* the moment it is made, whatever its run is doing; the report a request has
\* stored is the stamped report of its finished run; last_sync_result changes
\* only by such a store, so a stored report stays until another request
\* stores its own; and GET /status returns what last_sync_result holds at
\* that moment.
StoredAsStated ==
  /\ [](\A r \in Runs :
          /\ (request[r].mode = "async" /\ request[r].ack = "none") =>
               ENABLED Acknowledge(r)
          /\ request[r].ack = "started" => request[r].mode = "async"
          /\ request[r].pc = "stored" =>
               /\ run[r].pc = "done"
               /\ \/ last_sync_result = OwnReport(r)
                  \/ \E q \in Runs \ {r} :
                       request[q].pc = "stored" /\ last_sync_result = OwnReport(q))
  /\ [][/\ last_sync_result' # last_sync_result =>
              \E r \in Runs :
                /\ request[r].pc = "stamped" /\ request'[r].pc = "stored"
                /\ last_sync_result' = OwnReport(r)
         /\ status_response' # status_response =>
              status_response' = Some(last_sync_result)]_vars

\* C19: StoredAsStated, and the run of an async request eventually returns and
\* its stamped report is stored in last_sync_result, unless the run stays for
\* ever in a call that never returns (a source adapter whose source never
\* answers, the publisher whose destination never answers).
C19_AsyncRunStoresItsReportUnlessBlocked ==
  /\ StoredAsStated
  /\ \A r \in Runs :
       (request[r].mode = "async") ~> (request[r].pc = "stored" \/ Blocked(r))

\* C19 as stated: StoredAsStated, and the run of every async request
\* eventually completes and its report is stored.
C19_AsyncRunStoresItsReport ==
  /\ StoredAsStated
  /\ \A r \in Runs : (request[r].mode = "async") ~> (request[r].pc = "stored")

\* An async request was answered "started", its run published the issue, and
\* GET /status has returned the report of that run.
C19_Witness ==
  \E r \in Runs :
    /\ request[r].mode = "async" /\ request[r].ack = "started"
    /\ request[r].pc = "stored"
    /\ status_response = Some(OwnReport(r))
    /\ run[r].result.status = "success" /\ run[r].result.synced = 1

\* A value GET /status may return: the initial one, or the report of an
\* invocation that has returned, with its counts, end_time and last_run_time.
CompleteReport(v) ==
  \/ v = NeverRun
  \/ \E r \in Runs :
       /\ run[r].pc = "done" /\ request[r].last_run_time # None
       /\ v = OwnReport(r)
       /\ v.end_time /\ v.last_run_time # None
       /\ v.status = "success" =>
            v.total = Len(run[r].all_items) /\ v.synced = run[r].synced_count
            /\ v.skipped = run[r].skipped_count /\ v.failed = run[r].failed_count

\* C20: whatever GET /status has returned, and whatever last_sync_result
\* holds, is the initial value or one complete report.
C20_StatusNeverPartial ==
  /\ CompleteReport(last_sync_result)
  /\ status_response # None => CompleteReport(status_response[1])

\* GET /status returned the complete report of one run while the other
\* invocation was inside the reconcile loop.
C20_Witness ==
  /\ status_response # None /\ status_response[1] # NeverRun
  /\ status_response[1].status = "success" /\ status_response[1].total = 1
  /\ \E r \in Runs : request[r].pc = "running" /\ run[r].pc \in LoopPcs

\* C21 as stated: a returned report whose error detail carries the
\* configuration-error label belongs to a run that made no source fetch, no
\* publisher call and no tracker write.
C21_ConfigLabelOnlyFromValidation ==
  \A r \in Runs :
    (run[r].pc = "done" /\ run[r].result.error # None
       /\ run[r].result.error[1].prefix = "config_error") =>
      /\ run[r].calls.fetch = 0
      /\ run[r].calls.publish = 0
      /\ run[r].calls.write = 0

\* Items of r that the loop has finished with.
Processed(r) ==
  IF run[r].pc \in {"lookup", "upload", "skip", "record", "blocked"}
    THEN run[r].idx - 1
  ELSE run[r].idx

\* C24: every returned report has synced + skipped + failed = total; a
\* success report of a run that fetched items has total = the number fetched
\* and the three counts are the loop's counters, which count every finished
\* item exactly once; an error report has all four counts 0.
C24_CountConservation ==
  \A r \in Runs :
    /\ run[r].result.status = "success" =>
         run[r].synced_count + run[r].skipped_count + run[r].failed_count
           = Processed(r)
    /\ run[r].pc = "done" =>
         /\ run[r].result.synced + run[r].result.skipped + run[r].result.failed
              = run[r].result.total
         /\ (run[r].result.status = "success" /\ run[r].all_items # <<>>) =>
              /\ run[r].result.total = Len(run[r].all_items)
              /\ run[r].result.synced = run[r].synced_count
              /\ run[r].result.skipped = run[r].skipped_count
              /\ run[r].result.failed = run[r].failed_count
              /\ Processed(r) = Len(run[r].all_items)
         /\ run[r].result.status = "error" =>
              /\ run[r].result.synced = 0 /\ run[r].result.skipped = 0
              /\ run[r].result.failed = 0 /\ run[r].result.total = 0

\* An error report with all counts 0 of a run that had synced one item.
C24_Witness ==
  \E r \in Runs :
    /\ run[r].pc = "done" /\ run[r].result.status = "error"
    /\ run[r].synced_count = 1 /\ run[r].idx = 2
    /\ run[r].result.total = 0

\* C25 as stated: every tracker row with status SUCCESS holds an identifier
\* that the destination issued.
C25_SuccessRowsHoldIssuedIds ==
  \A id \in Ids :
    (tracker[id] # None /\ tracker[id][1].last_sync_status = "SUCCESS") =>
      tracker[id][1].dify_document_id \in DocIds

\* C23: a step of a run whose decision for the current item was SKIP makes no
\* publisher call and no tracker access, leaves the whole tracker table as it
\* was, and of the three counters increments skipped by one and nothing else.
C23_SkipOnlyCounts ==
  [][\A r \in Runs :
       (run[r].pc = "skip" /\ run'[r] # run[r]) =>
         /\ tracker' = tracker
         /\ run'[r].calls = run[r].calls
         /\ run'[r].skipped_count = run[r].skipped_count + 1
         /\ run'[r].synced_count = run[r].synced_count
         /\ run'[r].failed_count = run[r].failed_count]_vars

\* A run has skipped its only item, whose row holds the same update time: no
\* publisher call, no tracker write, the row still there.
C23_Witness ==
  \E r \in Runs :
    /\ run[r].pc = "done" /\ run[r].result.status = "success"
    /\ Len(run[r].all_items) = 1
    /\ run[r].result.skipped = 1
    /\ run[r].calls.found = 1
    /\ run[r].calls.publish = 0 /\ run[r].calls.write = 0
    /\ tracker[run[r].all_items[1].id] = run[r].local_record
    /\ run[r].local_record # None
    /\ run[r].local_record[1].last_synced_update_time
         = run[r].all_items[1].updated_at

\* C26: when the tracker read for an item succeeded and returned a row whose
\* time has the same timezone-awareness as the item's, the time stored for the
\* id after the item's tracker write is not earlier than the time that was
\* stored before; this covers an id that occurs twice in one fetch list.
C26_StoredTimeNeverGoesBack ==
  \A r \in Runs :
    (/\ run[r].pc = "recorded"
     /\ ~run[r].read_failed
     /\ run[r].local_record # None
     /\ Parsable(run[r].local_record[1].last_synced_update_time)
     /\ parse(run[r].local_record[1].last_synced_update_time).aware
          = parse(CurrentItem(r).updated_at).aware) =>
      /\ tracker[CurrentItem(r).id] # None
      /\ ~greater(parse(run[r].local_record[1].last_synced_update_time),
                  parse(tracker[CurrentItem(r).id][1].last_synced_update_time))

\* The second occurrence of an id in one fetch list, with a later time, has
\* replaced the row written for the first occurrence.
C26_Witness ==
  \E r \in Runs :
    /\ run[r].pc = "recorded" /\ run[r].idx = 2
    /\ run[r].all_items[1].id = run[r].all_items[2].id
    /\ ~run[r].read_failed /\ ~run[r].write_failed
    /\ run[r].local_record # None
    /\ run[r].local_record[1].last_synced_update_time = run[r].all_items[1].updated_at
    /\ parse(run[r].all_items[1].updated_at).aware
    /\ parse(run[r].all_items[2].updated_at).aware
    /\ tracker[CurrentItem(r).id][1].last_synced_update_time = CurrentItem(r).updated_at
    /\ greater(parse(CurrentItem(r).updated_at),
               parse(run[r].local_record[1].last_synced_update_time))

\* C27 as stated: over successive status reads, the last_run_time of the
\* report returned never decreases, whatever the interleaving of the runs.
C27_LastRunTimeNeverDecreases ==
  [][(/\ status_response # None /\ status_response' # None
      /\ status_response[1].last_run_time # None) =>
       /\ status_response'[1].last_run_time # None
       /\ status_response'[1].last_run_time[1]
            >= status_response[1].last_run_time[1]]_vars

\* Invocations r and q fetched the same single item version.
SameVersion(r, q) ==
  /\ Len(run[r].all_items) = 1
  /\ run[r].all_items = run[q].all_items

\* C22: two invocations that do not overlap and fetched the same item version
\* do not both publish it when every tracker read and write of theirs
\* succeeded and no publisher call raised.  (That two overlapping invocations
\* can both publish it is C22_Witness.)
C22_SequentialRunsPublishOnce ==
  \A r \in Runs : \A q \in Runs \ {r} :
    (/\ ~request[r].overlap /\ ~request[q].overlap
     /\ SameVersion(r, q)
     /\ \A p \in {r, q} : /\ ~run[p].read_failed /\ ~run[p].write_failed
                           /\ run[p].upload # "raised") =>
      ~(run[r].calls.publish = 1 /\ run[q].calls.publish = 1)

\* Two overlapping invocations fetched the same item version, both read the
\* tracker before either wrote (neither found a row), both published it and
\* both writes were stored.
C22_Witness ==
  \E r \in Runs : \E q \in Runs \ {r} :
    /\ request[q].overlap
    /\ SameVersion(r, q)
    /\ \A p \in {r, q} :
         /\ run[p].pc = "done" /\ run[p].result.status = "success"
         /\ ~run[p].read_failed /\ ~run[p].write_failed
         /\ run[p].local_record = None
         /\ run[p].calls.publish = 1 /\ run[p].upload = "returned_id"
         /\ run[p].result.synced = 1
    /\ tracker[run[r].all_items[1].id] # None

\* C22 as stated: two invocations that do not overlap and whose tracker writes
\* succeed never both publish the same item version.
C22_NoDoublePublishWithoutOverlap ==
  \A r \in Runs : \A q \in Runs \ {r} :
    (/\ ~request[r].overlap /\ ~request[q].overlap
     /\ SameVersion(r, q)
     /\ ~run[r].write_failed /\ ~run[q].write_failed) =>
      ~(run[r].calls.publish = 1 /\ run[q].calls.publish = 1)

\* C28 as stated: after every sequence of update_sync_record calls the SQLite
\* branch and the other-backend branch hold the same record for each id in
\* source_type, last_synced_update_time, dify_document_id, last_sync_status.
C28_DialectsLeaveSameRecords ==
  \A id \in Ids :
    /\ (tracker[id] = None) <=> (mirror[id] = None)
    /\ tracker[id] # None =>
         /\ tracker[id][1].source_type = mirror[id][1].source_type
         /\ tracker[id][1].last_synced_update_time
              = mirror[id][1].last_synced_update_time
         /\ tracker[id][1].dify_document_id = mirror[id][1].dify_document_id
         /\ tracker[id][1].last_sync_status = mirror[id][1].last_sync_status

====
